---------------------------- MODULE Spec2Model ----------------------------
(***************************************************************************)
(* A model of the hadith full-text search engine                           *)
(* (server/src/final_optimized_search.py, class                            *)
(* FinalOptimizedHadithSearch): tokenizer, index builder, corpus           *)
(* statistics, BM25 scorer, query engine with its result caches,           *)
(* highlighter, reference lookup and the lazy initialisation lifecycle.    *)
(*                                                                         *)
(* Strings are sequences of characters.  A character is a one-element      *)
(* value written as a TLA+ string; the few characters outside ASCII that   *)
(* the model needs are named ("e_acute" is U+00E9, "I_dot" is U+0130,      *)
(* "comb_dot" is U+0307).                                                  *)
(***************************************************************************)
EXTENDS Integers, Sequences, FiniteSets, TLC

VARIABLES
    tok_in,     \* the text handed to _tokenize
    tok_done,   \* whether _tokenize has returned
    tok_out,    \* what _tokenize returned (<<>> before the call)
    hl_text,    \* the English body of one result of search_hadith_advanced
    hl_query,   \* the query of that call
    hl_done,    \* whether the highlighting pass has run over the result
    hl_out,     \* the result's 'highlights' (<<>> before the pass)
    corpus_file,    \* data/search-index.json: [state, document]
    instance,       \* the engine object: lazy_load, how far __init__ got
    collections,    \* self.collections, loaded by __init__
    menu,           \* the calls the callers may make
    calls_left,     \* per caller, how many calls it may still start
    pc,             \* per caller, where it is in its call
    op,             \* per caller, the call it is in (or made last)
    ret,            \* per caller, what its last call returned or raised
    is_initialized, \* self.is_initialized
    search_index,   \* self.search_index
    inverted_index, \* self.inverted_index
    doc_metadata,   \* self.doc_metadata
    doc_stats,      \* self.doc_stats
    cache,          \* the lru_cache of search_hadith, least recent first
    adv_cache,      \* the lru_cache of search_hadith_advanced
    builds,         \* how many times _build_inverted_index has run
    scorings,       \* how many times search_hadith has entered phase 1
    ranked          \* the last sorted_docs, with the query and limit

tokVars == <<tok_in, tok_done, tok_out>>
hlVars == <<hl_text, hl_query, hl_done, hl_out>>
engineVars ==
    <<corpus_file, instance, collections, menu, calls_left, pc, op, ret, is_initialized,
      search_index, inverted_index, doc_metadata, doc_stats, cache, adv_cache,
      builds, scorings, ranked>>
vars == <<tokVars, hlVars, engineVars>>

\* _tokenize, or the highlighting pass, not in use.
TokIdle == tok_in = <<>> /\ tok_done = FALSE /\ tok_out = <<>>
HlIdle == hl_text = <<>> /\ hl_query = <<>> /\ hl_done = FALSE /\ hl_out = <<>>

(***************************************************************************)
(* Characters and Python's str predicates on them.                         *)
(***************************************************************************)
AsciiLower == {"a", "b", "c", "i"}
AsciiUpper == {"A", "B"}
DigitChars == {"0", "1", "2", "3", "4", "5", "6", "7", "8", "9"}
\* Letters outside ASCII: str.isalpha() is true of them and \w matches them.
NonAsciiLetters == {"e_acute", "I_dot"}

\* str.isalpha() of one character.
isalpha(c) == c \in AsciiLower \cup AsciiUpper \cup NonAsciiLetters

\* The class \w of Python 3's re on str patterns: alphanumerics of any
\* script, and the underscore.
IsWordChar(c) == isalpha(c) \/ c \in DigitChars \/ c = "_"

\* str.lower() of one character; U+0130 lowers to two characters.
LowerChar(c) ==
    CASE c = "A" -> <<"a">>
      [] c = "B" -> <<"b">>
      [] c = "I_dot" -> <<"i", "comb_dot">>
      [] OTHER -> <<c>>

RECURSIVE lower(_)
lower(s) == IF s = <<>> THEN <<>> ELSE LowerChar(Head(s)) \o lower(Tail(s))

(***************************************************************************)
(* _tokenize: re.findall(r'\b[a-z]+\b', text.lower()).                     *)
(***************************************************************************)
\* \b at the gap before index i (1 .. Len(t)+1): exactly one side is \w.
WordBoundary(t, i) ==
    LET before == i > 1 /\ IsWordChar(t[i - 1])
        after  == i <= Len(t) /\ IsWordChar(t[i])
    IN  before # after

\* The last index of the run of [a-z] that starts at i.
RECURSIVE RunEnd(_, _)
RunEnd(t, i) ==
    IF i < Len(t) /\ t[i + 1] \in AsciiLower THEN RunEnd(t, i + 1) ELSE i

\* The scan of findall from index i: at each start the greedy [a-z]+ gives
\* back characters until \b holds after it; a match is consumed, a failure
\* moves the start one character on.
RECURSIVE FindAllFrom(_, _)
FindAllFrom(t, i) ==
    IF i > Len(t) THEN <<>>
    ELSE IF WordBoundary(t, i) /\ t[i] \in AsciiLower
    THEN LET ends == {j \in i..RunEnd(t, i) : WordBoundary(t, j + 1)}
         IN  IF ends = {} THEN FindAllFrom(t, i + 1)
             ELSE LET e == CHOOSE j \in ends : \A k \in ends : k <= j
                  IN  <<SubSeq(t, i, e)>> \o FindAllFrom(t, e + 1)
    ELSE FindAllFrom(t, i + 1)

\* A tokenizer without the \b anchors: every run of [a-z].
TokenizeNoAnchors(text) ==
    LET t == lower(text)
        F[i \in 1..(Len(t) + 1)] ==
            IF i > Len(t) THEN <<>>
            ELSE IF t[i] \in AsciiLower
                 THEN <<SubSeq(t, i, RunEnd(t, i))>> \o F[RunEnd(t, i) + 1]
                 ELSE F[i + 1]
    IN  F[1]

_tokenize(text) == FindAllFrom(lower(text), 1)

(***************************************************************************)
(* The highlighting pass of search_hadith_advanced over one result.        *)
(* Offsets are Python's: zero-based, half-open.                            *)
(***************************************************************************)
Min(a, b) == IF a <= b THEN a ELSE b
Max(a, b) == IF a >= b THEN a ELSE b

\* text[i:j] for 0 <= i, with Python's clipping at the end of the text.
Slice(text, i, j) == SubSeq(text, i + 1, Min(j, Len(text)))

\* The first k elements: s[:k].
Prefix(s, k) == SubSeq(s, 1, Min(k, Len(s)))

\* str.find(word, start): the lowest offset >= start at which word occurs,
\* or -1.
Find(t, word, start) ==
    LET at == {p \in start..(Len(t) - Len(word)) : SubSeq(t, p + 1, p + Len(word)) = word}
    IN  IF at = {} THEN -1 ELSE CHOOSE p \in at : \A q \in at : p <= q

\* while word_start > 0 and text_lower[word_start-1].isalpha(): word_start -= 1
RECURSIVE ExtendLeft(_, _)
ExtendLeft(t, word_start) ==
    IF word_start > 0 /\ isalpha(t[word_start])
    THEN ExtendLeft(t, word_start - 1) ELSE word_start

\* while word_end < len(text_lower) and text_lower[word_end].isalpha(): word_end += 1
RECURSIVE ExtendRight(_, _)
ExtendRight(t, word_end) ==
    IF word_end < Len(t) /\ isalpha(t[word_end + 1])
    THEN ExtendRight(t, word_end + 1) ELSE word_end

MaxHighlightWords == 5
MaxHighlightsPerWord == 3
MaxHighlights == 10

\* The while loop for one word, from (count, start).
RECURSIVE WordHighlights(_, _, _, _, _)
WordHighlights(text, text_lower, word, count, start) ==
    IF count >= MaxHighlightsPerWord THEN <<>>
    ELSE LET pos == Find(text_lower, word, start)
         IN  IF pos = -1 THEN <<>>
             ELSE LET word_start == ExtendLeft(text_lower, pos)
                      word_end   == ExtendRight(text_lower, pos + Len(word))
                  IN  <<[start |-> word_start, end |-> word_end,
                         text |-> Slice(text, word_start, word_end)]>>
                      \o WordHighlights(text, text_lower, word, count + 1, pos + 1)

\* The for loop over query_words[:5].
RECURSIVE FoundHighlights(_, _, _)
FoundHighlights(text, text_lower, words) ==
    IF words = <<>> THEN <<>>
    ELSE WordHighlights(text, text_lower, Head(words), 0, 0)
         \o FoundHighlights(text, text_lower, Tail(words))

\* list.sort(key=lambda x: x['start']): stable, ascending.
RECURSIVE InsertByStart(_, _)
InsertByStart(sorted, h) ==
    IF sorted = <<>> THEN <<h>>
    ELSE LET last == sorted[Len(sorted)]
         IN  IF last.start <= h.start THEN Append(sorted, h)
             ELSE Append(InsertByStart(SubSeq(sorted, 1, Len(sorted) - 1), h), last)

RECURSIVE SortByStart(_)
SortByStart(hs) ==
    IF hs = <<>> THEN <<>>
    ELSE InsertByStart(SortByStart(SubSeq(hs, 1, Len(hs) - 1)), hs[Len(hs)])

\* A merge loop that compares with the previous span's start.
RECURSIVE MergeAgainstStart(_, _, _)
MergeAgainstStart(text, merged, hs) ==
    IF hs = <<>> THEN merged
    ELSE LET h == Head(hs)
             n == Len(merged)
         IN  IF n > 0 /\ h.start < merged[n].start
             THEN LET e == Max(merged[n].end, h.end)
                  IN  MergeAgainstStart(text,
                          [merged EXCEPT ![n] = [start |-> merged[n].start, end |-> e,
                                                 text |-> Slice(text, merged[n].start, e)]],
                          Tail(hs))
             ELSE MergeAgainstStart(text, Append(merged, h), Tail(hs))

\* The merge loop: a span that starts at or before the end of the last
\* merged one extends it, and the text is sliced again.
RECURSIVE MergeHighlights(_, _, _)
MergeHighlights(text, merged, hs) ==
    IF hs = <<>> THEN merged
    ELSE LET h == Head(hs)
             n == Len(merged)
         IN  IF n > 0 /\ h.start <= merged[n].end
             THEN LET e == Max(merged[n].end, h.end)
                  IN  MergeHighlights(text,
                          [merged EXCEPT ![n] = [start |-> merged[n].start, end |-> e,
                                                 text |-> Slice(text, merged[n].start, e)]],
                          Tail(hs))
             ELSE MergeHighlights(text, Append(merged, h), Tail(hs))

\* result['highlights'] for a result whose body_en is text.
Highlights(text, query) ==
    LET query_words == _tokenize(lower(query))
        found == FoundHighlights(text, lower(text), Prefix(query_words, MaxHighlightWords))
    IN  Prefix(MergeHighlights(text, <<>>, SortByStart(found)), MaxHighlights)

(***************************************************************************)
(* The corpus file search-index.json.  A parsed document is                *)
(*   [collections |-> << [id, books |-> << [id, bookName, hadiths] >>] >>] *)
(* with the JSON objects kept as sequences in insertion order, which is    *)
(* the order dict iteration walks them in.  A book id is a string (a       *)
(* sequence of characters); a collection id is an atom.                    *)
(***************************************************************************)
EmptyDocument == [collections |-> <<>>]

\* The hadiths of all books, in the order of the three nested loops of
\* _build_inverted_index, each with the keys it was reached by.
RECURSIVE HadithsOfBook(_, _, _)
HadithsOfBook(collection_id, book, hadith_idx) ==
    IF hadith_idx >= Len(book.hadiths) THEN <<>>
    ELSE <<[collection_id |-> collection_id, book_id |-> book.id,
            hadith_idx |-> hadith_idx, hadith |-> book.hadiths[hadith_idx + 1]]>>
         \o HadithsOfBook(collection_id, book, hadith_idx + 1)

RECURSIVE HadithsOfBooks(_, _)
HadithsOfBooks(collection_id, books) ==
    IF books = <<>> THEN <<>>
    ELSE HadithsOfBook(collection_id, Head(books), 0)
         \o HadithsOfBooks(collection_id, Tail(books))

RECURSIVE HadithsOfCollections(_)
HadithsOfCollections(colls) ==
    IF colls = <<>> THEN <<>>
    ELSE HadithsOfBooks(Head(colls).id, Head(colls).books)
         \o HadithsOfCollections(Tail(colls))

Range(s) == {s[k] : k \in 1..Len(s)}

\* A Counter that records that the word is there, not how often.
CountAsOne(words, word) == 1

\* Counter(words)[word]
Count(words, word) == Cardinality({k \in 1..Len(words) : words[k] = word})

\* inverted_index[word].append((doc_id, count)) for every word of the
\* Counter; the index is a function from the words seen so far.
AddPostings(index, doc_id, words) ==
    [w \in DOMAIN index \cup Range(words) |->
        IF w \in Range(words)
        THEN Append(IF w \in DOMAIN index THEN index[w] ELSE <<>>,
                    <<doc_id, Count(words, w)>>)
        ELSE index[w]]

\* A builder that counts only the words of two letters or more for the
\* length of the document.
DocLengthOfLongWords(searchable_text, words) ==
    Cardinality({k \in 1..Len(words) : Len(words[k]) > 1})

\* doc_length = len(words)
DocLength(searchable_text, words) == Len(words)

\* The loop of _build_inverted_index from doc_id on; entries[k] is the
\* hadith that gets doc_id k - 1.  doc_metadata[doc_id] is kept at index
\* doc_id + 1 of a sequence.
RECURSIVE BuildFrom(_, _, _, _)
BuildFrom(entries, doc_id, index, metadata) ==
    IF doc_id >= Len(entries) THEN [inverted_index |-> index, doc_metadata |-> metadata]
    ELSE LET e == entries[doc_id + 1]
             searchable_text == e.hadith.searchableText
             words == _tokenize(searchable_text)
         IN  BuildFrom(entries, doc_id + 1,
                       AddPostings(index, doc_id, words),
                       Append(metadata,
                              [collection_id |-> e.collection_id,
                               book_id |-> e.book_id,
                               hadith_idx |-> e.hadith_idx,
                               doc_length |-> DocLength(searchable_text, words)]))

_build_inverted_index(index_document) ==
    BuildFrom(HadithsOfCollections(index_document.collections), 0, <<>>, <<>>)

RECURSIVE SumDocLength(_)
SumDocLength(metadata) ==
    IF metadata = <<>> THEN 0
    ELSE Head(metadata).doc_length + SumDocLength(Tail(metadata))

\* Statistics that default the average to one document length of 1.
StatsDefaultingToOne(metadata) ==
    LET total_docs == Len(metadata)
    IN  [total_docs |-> total_docs,
         avg_doc_length |->
            IF total_docs > 0 /\ SumDocLength(metadata) > 0
            THEN [num |-> SumDocLength(metadata), den |-> total_docs]
            ELSE [num |-> 1, den |-> 1]]

\* _calculate_doc_stats; the average is the exact fraction num / den.
_calculate_doc_stats(metadata) ==
    LET total_docs == Len(metadata)
        total_length == SumDocLength(metadata)
    IN  [total_docs |-> total_docs,
         avg_doc_length |->
            IF total_docs > 0 THEN [num |-> total_length, den |-> total_docs]
            ELSE [num |-> 0, den |-> 1]]

NoStats == [total_docs |-> 0, avg_doc_length |-> [num |-> 0, den |-> 1]]

(***************************************************************************)
(* _bm25_score.  Scores are kept in fixed point, ScoreUnit to 1.0.  The    *)
(* term-frequency factor is an exact fraction; only the logarithm is       *)
(* rounded.  Equal computations give equal scores, as they do in floating  *)
(* point; sums are exact here, so a sum rounds the same in any order.      *)
(***************************************************************************)
ScoreUnit == 100000

\* ln(n) in ScoreUnit-ths, n = 1 .. 24.
LnTable ==
    << 0, 69315, 109861, 138629, 160944, 179176, 194591, 207944,
       219722, 230259, 239790, 248491, 256495, 263906, 270805, 277259,
       283321, 289037, 294444, 299573, 304452, 309104, 313549, 317805 >>

\* idf = ln((N - df + 0.5) / (df + 0.5) + 1) = ln((2N + 2) / (2 df + 1))
Idf(N, num_docs_with_term) ==
    LnTable[2 * N + 2] - LnTable[2 * num_docs_with_term + 1]

\* With k1 = 1.2, b = 0.75 and avg_dl = num / den:
\*   tf (k1 + 1) / (tf + k1 (1 - b + b dl / avg_dl))
\*     = 22 tf num / (10 tf num + 3 num + 9 dl den).
\* A zero avg_dl is Python's ZeroDivisionError.
_bm25_score(stats, term_freq, doc_length, num_docs_with_term) ==
    LET avg_dl == stats.avg_doc_length
    IN  IF avg_dl.num = 0 THEN [error |-> "ZeroDivisionError", score |-> 0]
        ELSE [error |-> "none",
              score |-> (Idf(stats.total_docs, num_docs_with_term)
                           * 22 * term_freq * avg_dl.num)
                        \div (10 * term_freq * avg_dl.num + 3 * avg_dl.num
                                + 9 * doc_length * avg_dl.den)]

\* _normalize_query: ' '.join(sorted(set(words)))
CharRank(c) ==
    CASE c = "a" -> 1 [] c = "b" -> 2 [] c = "c" -> 3 [] c = "i" -> 4

RECURSIVE StrLess(_, _)
StrLess(x, y) ==
    IF y = <<>> THEN FALSE
    ELSE IF x = <<>> THEN TRUE
    ELSE IF Head(x) = Head(y) THEN StrLess(Tail(x), Tail(y))
    ELSE CharRank(Head(x)) < CharRank(Head(y))

RECURSIVE JoinSorted(_)
JoinSorted(words) ==
    IF words = {} THEN <<>>
    ELSE LET w == CHOOSE x \in words : \A y \in words \ {x} : StrLess(x, y)
             rest == JoinSorted(words \ {w})
         IN  IF rest = <<>> THEN w ELSE w \o <<" ">> \o rest

_normalize_query(query) == JoinSorted(Range(_tokenize(query)))

(***************************************************************************)
(* search_hadith after _ensure_initialized: scoring, top-k, materialising. *)
(* doc_scores is a dict: a sequence of [doc_id, score] in insertion order. *)
(***************************************************************************)
CommonWordDocs == 100
SampleSize == 1000
EarlyStopFactor == 3
HeapFactor == 2
\* 2.0 in ScoreUnit-ths
EarlyStopScore == 200000

HasDoc(doc_scores, doc_id) == \E k \in 1..Len(doc_scores) : doc_scores[k].doc_id = doc_id

\* doc_scores[doc_id] += score, on a defaultdict(float)
AddScore(doc_scores, doc_id, score) ==
    IF HasDoc(doc_scores, doc_id)
    THEN [k \in 1..Len(doc_scores) |->
            IF doc_scores[k].doc_id = doc_id
            THEN [doc_id |-> doc_id, score |-> doc_scores[k].score + score]
            ELSE doc_scores[k]]
    ELSE Append(doc_scores, [doc_id |-> doc_id, score |-> score])

\* doc_scores[doc_id] += score for the score s just computed, or its error.
Accumulate(acc, doc_id, s) ==
    IF s.error # "none" THEN [error |-> s.error, doc_scores |-> acc.doc_scores]
    ELSE [error |-> "none", doc_scores |-> AddScore(acc.doc_scores, doc_id, s.score)]

\* The loop over the postings of one word; the first error ends it.
RECURSIVE ScorePostings(_, _, _, _, _)
ScorePostings(stats, metadata, postings, num_docs_with_term, acc) ==
    IF postings = <<>> \/ acc.error # "none" THEN acc
    ELSE ScorePostings(stats, metadata, Tail(postings), num_docs_with_term,
             Accumulate(acc, Head(postings)[1],
                        _bm25_score(stats, Head(postings)[2],
                                    metadata[Head(postings)[1] + 1].doc_length,
                                    num_docs_with_term)))

\* The postings the loop walks: all of a rare word's, the first
\* min(1000, len) of a common word's.
Scanned(docs_with_word) ==
    IF Len(docs_with_word) < CommonWordDocs THEN docs_with_word
    ELSE Prefix(docs_with_word, Min(SampleSize, Len(docs_with_word)))

\* The loop over query_words (phase 1).
RECURSIVE ScoreWords(_, _, _, _, _)
ScoreWords(index, stats, metadata, query_words, acc) ==
    IF query_words = <<>> \/ acc.error # "none" THEN acc
    ELSE IF Head(query_words) \notin DOMAIN index
    THEN ScoreWords(index, stats, metadata, Tail(query_words), acc)
    ELSE ScoreWords(index, stats, metadata, Tail(query_words),
             ScorePostings(stats, metadata, Scanned(index[Head(query_words)]),
                           Len(index[Head(query_words)]), acc))

\* sorted(items, key=score, reverse=True): stable, so equal scores keep the
\* order the items came in.
RECURSIVE InsertByScore(_, _)
InsertByScore(sorted, item) ==
    IF sorted = <<>> THEN <<item>>
    ELSE IF sorted[Len(sorted)].score >= item.score THEN Append(sorted, item)
    ELSE Append(InsertByScore(SubSeq(sorted, 1, Len(sorted) - 1), item),
                sorted[Len(sorted)])

RECURSIVE SortByScore(_)
SortByScore(items) ==
    IF items = <<>> THEN <<>>
    ELSE InsertByScore(SortByScore(SubSeq(items, 1, Len(items) - 1)), items[Len(items)])

\* heapq.nlargest(n, items, key=score): sorted(..., reverse=True)[:n]
nlargest(n, items) == Prefix(SortByScore(items), n)

\* list[i] of Python as an index from 1, or 0 where list[i] raises
\* IndexError: a negative i counts from the end.
PyIndex(length, i) ==
    IF i < 0
    THEN (IF i + length < 0 THEN 0 ELSE i + length + 1)
    ELSE (IF i >= length THEN 0 ELSE i + 1)

\* if len(top_docs) >= limit and top_docs[limit-1][1] > 2.0:
\*     doc_scores = dict(top_docs[:limit])
StopEarly(doc_scores, limit, top_docs) ==
    IF Len(top_docs) >= limit
    THEN IF PyIndex(Len(top_docs), limit - 1) = 0
         THEN [error |-> "IndexError", doc_scores |-> doc_scores]
         ELSE IF top_docs[PyIndex(Len(top_docs), limit - 1)].score > EarlyStopScore
              THEN [error |-> "none", doc_scores |-> Prefix(top_docs, limit)]
              ELSE [error |-> "none", doc_scores |-> doc_scores]
    ELSE [error |-> "none", doc_scores |-> doc_scores]

\* The early-termination block.
EarlyTermination(doc_scores, limit) ==
    IF Len(doc_scores) > limit * EarlyStopFactor
    THEN StopEarly(doc_scores, limit, nlargest(limit * HeapFactor, doc_scores))
    ELSE [error |-> "none", doc_scores |-> doc_scores]

\* sorted_docs = sorted(doc_scores.items(), ...)[:limit]
FinalSort(kept, limit) ==
    IF kept.error # "none" THEN [error |-> kept.error, docs |-> <<>>]
    ELSE [error |-> "none", docs |-> Prefix(SortByScore(kept.doc_scores), limit)]

AfterScoring(scored, limit) ==
    IF scored.error # "none" THEN [error |-> scored.error, docs |-> <<>>]
    ELSE FinalSort(EarlyTermination(scored.doc_scores, limit), limit)

\* sorted_docs of search_hadith: phase 1 to the final sort.
SortedDocs(index, stats, metadata, query_words, limit) ==
    AfterScoring(ScoreWords(index, stats, metadata, query_words,
                            [error |-> "none", doc_scores |-> <<>>]),
                 limit)

(***************************************************************************)
(* int(book_id) and str(bookReference).                                    *)
(***************************************************************************)
DigitValue(c) ==
    CASE c = "0" -> 0 [] c = "1" -> 1 [] c = "2" -> 2 [] c = "3" -> 3 [] c = "4" -> 4
      [] c = "5" -> 5 [] c = "6" -> 6 [] c = "7" -> 7 [] c = "8" -> 8 [] c = "9" -> 9

DigitOf(n) ==
    CASE n = 0 -> "0" [] n = 1 -> "1" [] n = 2 -> "2" [] n = 3 -> "3" [] n = 4 -> "4"
      [] n = 5 -> "5" [] n = 6 -> "6" [] n = 7 -> "7" [] n = 8 -> "8" [] n = 9 -> "9"

\* str(n) of an integer n >= 0
RECURSIVE IntToStr(_)
IntToStr(n) == IF n < 10 THEN <<DigitOf(n)>> ELSE IntToStr(n \div 10) \o <<DigitOf(n % 10)>>

RECURSIVE StripLeft(_)
StripLeft(s) == IF s # <<>> /\ Head(s) = " " THEN StripLeft(Tail(s)) ELSE s

RECURSIVE StripRight(_)
StripRight(s) ==
    IF s # <<>> /\ s[Len(s)] = " " THEN StripRight(SubSeq(s, 1, Len(s) - 1)) ELSE s

RECURSIVE DigitsValue(_, _)
DigitsValue(s, acc) ==
    IF s = <<>> THEN acc
    ELSE IF Head(s) = "_" THEN DigitsValue(Tail(s), acc)
    ELSE DigitsValue(Tail(s), 10 * acc + DigitValue(Head(s)))

\* Digits, with single underscores allowed between digits.
IsDigits(body) ==
    /\ body # <<>>
    /\ \A k \in 1..Len(body) :
          \/ body[k] \in DigitChars
          \/ /\ body[k] = "_"
             /\ k > 1 /\ k < Len(body)
             /\ body[k - 1] \in DigitChars /\ body[k + 1] \in DigitChars

IntOfDigits(negative, body) ==
    IF ~IsDigits(body) THEN [error |-> "ValueError", value |-> 0]
    ELSE [error |-> "none",
          value |-> IF negative THEN 0 - DigitsValue(body, 0) ELSE DigitsValue(body, 0)]

IntOfStripped(t) ==
    IF t # <<>> /\ Head(t) \in {"+", "-"} THEN IntOfDigits(Head(t) = "-", Tail(t))
    ELSE IntOfDigits(FALSE, t)

\* int(s): surrounding whitespace, one optional sign, then digits;
\* anything else is ValueError.
int(s) == IntOfStripped(StripRight(StripLeft(s)))

(***************************************************************************)
(* Phase 2 and get_hadith_by_reference: records built from the corpus.     *)
(***************************************************************************)
\* d[key] on a JSON object kept as a sequence of entries with an id.
HasKey(entries, key) == \E k \in 1..Len(entries) : entries[k].id = key
AtKey(entries, key) == entries[CHOOSE k \in 1..Len(entries) : entries[k].id = key]

\* self.collections.get(collection_id, {}).get('name', collection_id)
CollectionName(manifest, collection_id) ==
    IF collection_id \in DOMAIN manifest THEN manifest[collection_id].name
    ELSE collection_id

\* The dict both search_hadith and get_hadith_by_reference build, from the
\* book, the hadith and int(book id); search_hadith adds the score.
Record(manifest, collection_id, book_data, hadith, book_no) ==
    [collection_id |-> collection_id,
     collection |-> CollectionName(manifest, collection_id),
     hadith_no |-> hadith.hadithNumber,
     book_no |-> book_no.value,
     book_en |-> book_data.bookName,
     narrator_en |-> hadith.englishNarrated,
     body_en |-> hadith.englishText,
     body_ar |-> hadith.arabicText,
     book_ref_no |-> hadith.bookReference]

WithScore(record, score) ==
    [f \in DOMAIN record \cup {"score"} |-> IF f = "score" THEN score ELSE record[f]]

MaterializeFrom(manifest, meta, book_data, book_no, score) ==
    IF book_no.error # "none" THEN [error |-> book_no.error, result |-> <<>>]
    ELSE [error |-> "none",
          result |-> WithScore(Record(manifest, meta.collection_id, book_data,
                                      book_data.hadiths[meta.hadith_idx + 1], book_no),
                               score)]

\* The result dict of search_hadith for one of sorted_docs.
MaterializeMeta(index_document, manifest, meta, score) ==
    MaterializeFrom(manifest, meta,
                    AtKey(AtKey(index_document.collections, meta.collection_id).books,
                          meta.book_id),
                    int(meta.book_id), score)

Materialize(index_document, manifest, metadata, doc) ==
    MaterializeMeta(index_document, manifest, metadata[doc.doc_id + 1], doc.score)

\* results.append(result), or the error that ends the loop.
AppendResult(acc, m) ==
    IF m.error # "none" THEN [error |-> m.error, results |-> <<>>]
    ELSE [error |-> "none", results |-> Append(acc.results, m.result)]

\* The loop of phase 2; the first error ends it.
RECURSIVE MaterializeAll(_, _, _, _, _)
MaterializeAll(index_document, manifest, metadata, docs, acc) ==
    IF docs = <<>> \/ acc.error # "none" THEN acc
    ELSE MaterializeAll(index_document, manifest, metadata, Tail(docs),
             AppendResult(acc, Materialize(index_document, manifest, metadata, Head(docs))))

\* The first hadith of the book whose str(bookReference) is ref_no, as an
\* index into the book's hadiths, or 0.
FirstOf(hits) == IF hits = {} THEN 0 ELSE CHOOSE k \in hits : \A j \in hits : k <= j

FirstWithReference(hadiths, ref_no) ==
    FirstOf({k \in 1..Len(hadiths) : IntToStr(hadiths[k].bookReference) = ref_no})

Absent == [kind |-> "absent", error |-> "none", value |-> <<>>]

\* The return of get_hadith_by_reference once the hadith is found at k
\* (0: not found, and int(book_no) is never reached).
ReferenceRecord(manifest, collection_id, book_data, k, n) ==
    IF k = 0 THEN Absent
    ELSE IF n.error # "none"
    THEN [kind |-> "exception", error |-> n.error, value |-> <<>>]
    ELSE [kind |-> "ok", error |-> "none",
          value |-> Record(manifest, collection_id, book_data, book_data.hadiths[k], n)]

ReferenceInBook(manifest, collection_id, book_data, book_no, ref_no) ==
    ReferenceRecord(manifest, collection_id, book_data,
                    FirstWithReference(book_data.hadiths, ref_no), int(book_no))

ReferenceInBooks(manifest, collection_id, books, book_no, ref_no) ==
    IF ~HasKey(books, book_no) THEN Absent
    ELSE ReferenceInBook(manifest, collection_id, AtKey(books, book_no), book_no, ref_no)

\* get_hadith_by_reference after _ensure_initialized.  kind is "ok" with
\* the record, "absent" for None, or "exception".
ReferenceLookup(index_document, manifest, collection_id, book_no, ref_no) ==
    IF ~HasKey(index_document.collections, collection_id) THEN Absent
    ELSE ReferenceInBooks(manifest, collection_id,
                          AtKey(index_document.collections, collection_id).books,
                          book_no, ref_no)

(***************************************************************************)
(* functools.lru_cache(maxsize=2048): a sequence of [key, value], least    *)
(* recently used first.  The key is the pair of arguments as passed.       *)
(***************************************************************************)
CacheMaxSize == 2048

CacheHas(c, key) == \E k \in 1..Len(c) : c[k].key = key
CachePlace(c, key) == CHOOSE k \in 1..Len(c) : c[k].key = key
CacheGet(c, key) == c[CachePlace(c, key)].value

Without(c, k) == SubSeq(c, 1, k - 1) \o SubSeq(c, k + 1, Len(c))

\* A hit moves the entry to the most recent place.
CacheTouch(c, key) == Append(Without(c, CachePlace(c, key)), c[CachePlace(c, key)])

\* After a miss the computed value is stored, unless another call stored
\* the key meanwhile; a full cache drops its least recent entry.
CacheStore(c, key, value) ==
    IF CacheHas(c, key) THEN c
    ELSE IF Len(c) >= CacheMaxSize
         THEN Append(Tail(c), [key |-> key, value |-> value])
         ELSE Append(c, [key |-> key, value |-> value])

\* The dicts of a cached list changed in place.
CacheMutate(c, key, value) ==
    [k \in 1..Len(c) |-> IF c[k].key = key THEN [key |-> key, value |-> value] ELSE c[k]]

(***************************************************************************)
(* The engine: callers, each making calls one after the other.             *)
(***************************************************************************)
Callers == {1, 2}

Returned(value) == [kind |-> "ok", error |-> "none", value |-> value]
Raised(error) == [kind |-> "exception", error |-> error, value |-> <<>>]
NothingYet == [kind |-> "none", error |-> "none", value |-> <<>>]

SearchCall(query, limit) ==
    [kind |-> "search", query |-> query, limit |-> limit,
     collection_id |-> "", book_no |-> <<>>, ref_no |-> <<>>]
AdvancedCall(query, limit) ==
    [kind |-> "advanced", query |-> query, limit |-> limit,
     collection_id |-> "", book_no |-> <<>>, ref_no |-> <<>>]
ReferenceCall(collection_id, book_no, ref_no) ==
    [kind |-> "reference", query |-> <<>>, limit |-> 0,
     collection_id |-> collection_id, book_no |-> book_no, ref_no |-> ref_no]
NoCall == SearchCall(<<>>, 0)

Key(c) == <<c.query, c.limit>>

\* result['highlights'] = ...
WithHighlights(result, highlights) ==
    [f \in DOMAIN result \cup {"highlights"} |->
        IF f = "highlights" THEN highlights ELSE result[f]]

\* The loop of search_hadith_advanced over the results.
HighlightAll(results, query) ==
    [k \in 1..Len(results) |->
        WithHighlights(results[k], Highlights(results[k].body_en, query))]

\* return results, or the exception of phase 2.
SearchReturn(sorted_docs, m) ==
    [ret |-> IF m.error # "none" THEN Raised(m.error) ELSE Returned(m.results),
     scored |-> TRUE,
     docs |-> sorted_docs.docs]

SearchFromSorted(sorted_docs) ==
    IF sorted_docs.error # "none"
    THEN [ret |-> Raised(sorted_docs.error), scored |-> TRUE, docs |-> <<>>]
    ELSE SearchReturn(sorted_docs,
                      MaterializeAll(search_index, collections, doc_metadata,
                                     sorted_docs.docs,
                                     [error |-> "none", results |-> <<>>]))

SearchFromWords(query_words, limit) ==
    IF query_words = <<>>
    THEN [ret |-> Returned(<<>>), scored |-> FALSE, docs |-> <<>>]
    ELSE SearchFromSorted(SortedDocs(inverted_index, doc_stats, doc_metadata,
                                     query_words, limit))

\* search_hadith from the tokenizing of the query on.
SearchBody(query, limit) == SearchFromWords(_tokenize(lower(query)), limit)

\* The test of _ensure_initialized: if not self.is_initialized
NotInitialized(flag) == ~flag

\* An _initialize_index that never returns early.
NeverReturnsEarly(flag) == FALSE

\* The test of _initialize_index: if self.is_initialized: return
ReturnsEarly(flag) == flag

engineFrame == <<corpus_file, instance, collections, menu>>
indexVars == <<is_initialized, search_index, inverted_index, doc_metadata, doc_stats>>

\* The caller starts search_hadith(query, limit): the cache is looked up,
\* an empty query returns [] at once, anything else goes on to
\* _ensure_initialized.
CallSearch(p) ==
    /\ instance.state = "constructed"
    /\ pc[p] = "idle"
    /\ calls_left[p] > 0
    /\ \E c \in menu :
        /\ c.kind = "search"
        /\ op' = [op EXCEPT ![p] = c]
        /\ IF CacheHas(cache, Key(c))
           THEN /\ ret' = [ret EXCEPT ![p] = Returned(CacheGet(cache, Key(c)))]
                /\ cache' = CacheTouch(cache, Key(c))
                /\ pc' = pc
           ELSE IF c.query = <<>>
           THEN /\ ret' = [ret EXCEPT ![p] = Returned(<<>>)]
                /\ cache' = CacheStore(cache, Key(c), <<>>)
                /\ pc' = pc
           ELSE /\ ret' = [ret EXCEPT ![p] = NothingYet]
                /\ cache' = cache
                /\ pc' = [pc EXCEPT ![p] = "ensure"]
    /\ calls_left' = [calls_left EXCEPT ![p] = @ - 1]
    /\ UNCHANGED <<engineFrame, indexVars, adv_cache, builds, scorings, ranked,
                   tokVars, hlVars>>

\* The inner search_hadith hit its cache: the list it holds is highlighted
\* in place and returned.
AdvancedOnCached(p, key, results) ==
    /\ ret' = [ret EXCEPT ![p] = Returned(results)]
    /\ cache' = CacheMutate(CacheTouch(cache, key), key, results)
    /\ adv_cache' = CacheStore(adv_cache, key, results)
    /\ pc' = pc

\* The caller starts search_hadith_advanced(query, limit).  On a miss it
\* calls search_hadith(query, limit), which looks its own cache up; a hit
\* there is highlighted at once, in place.
CallAdvanced(p) ==
    /\ instance.state = "constructed"
    /\ pc[p] = "idle"
    /\ calls_left[p] > 0
    /\ \E c \in menu :
        /\ c.kind = "advanced"
        /\ op' = [op EXCEPT ![p] = c]
        /\ IF CacheHas(adv_cache, Key(c))
           THEN /\ ret' = [ret EXCEPT ![p] = Returned(CacheGet(adv_cache, Key(c)))]
                /\ adv_cache' = CacheTouch(adv_cache, Key(c))
                /\ UNCHANGED <<cache, pc>>
           ELSE IF c.query = <<>>
           THEN /\ ret' = [ret EXCEPT ![p] = Returned(<<>>)]
                /\ adv_cache' = CacheStore(adv_cache, Key(c), <<>>)
                /\ UNCHANGED <<cache, pc>>
           ELSE IF CacheHas(cache, Key(c))
           THEN AdvancedOnCached(p, Key(c),
                                 HighlightAll(CacheGet(cache, Key(c)), c.query))
           ELSE /\ ret' = [ret EXCEPT ![p] = NothingYet]
                /\ pc' = [pc EXCEPT ![p] = "ensure"]
                /\ UNCHANGED <<cache, adv_cache>>
    /\ calls_left' = [calls_left EXCEPT ![p] = @ - 1]
    /\ UNCHANGED <<engineFrame, indexVars, builds, scorings, ranked, tokVars, hlVars>>

\* The caller starts get_hadith_by_reference, which is not cached.
CallReference(p) ==
    /\ instance.state = "constructed"
    /\ pc[p] = "idle"
    /\ calls_left[p] > 0
    /\ \E c \in menu :
        /\ c.kind = "reference"
        /\ op' = [op EXCEPT ![p] = c]
    /\ ret' = [ret EXCEPT ![p] = NothingYet]
    /\ pc' = [pc EXCEPT ![p] = "ensure"]
    /\ calls_left' = [calls_left EXCEPT ![p] = @ - 1]
    /\ UNCHANGED <<engineFrame, indexVars, cache, adv_cache, builds, scorings, ranked,
                   tokVars, hlVars>>

\* _ensure_initialized reads the flag.
EnsureInitialized(p) ==
    /\ pc[p] = "ensure"
    /\ pc' = [pc EXCEPT ![p] = IF NotInitialized(is_initialized) THEN "init" ELSE "run"]
    /\ UNCHANGED <<engineFrame, calls_left, op, ret, indexVars, cache, adv_cache,
                   builds, scorings, ranked, tokVars, hlVars>>

\* _initialize_index reads the flag again.
InitializeIndex(p) ==
    /\ pc[p] = "init"
    /\ pc' = [pc EXCEPT ![p] = IF ReturnsEarly(is_initialized) THEN "run" ELSE "load"]
    /\ UNCHANGED <<engineFrame, calls_left, op, ret, indexVars, cache, adv_cache,
                   builds, scorings, ranked, tokVars, hlVars>>

\* self.search_index = self._load_search_index(): a missing file is {}.
LoadSearchIndex(p) ==
    /\ pc[p] = "load"
    /\ corpus_file.state # "malformed"
    /\ search_index' = IF corpus_file.state = "missing" THEN EmptyDocument
                       ELSE corpus_file.document
    /\ pc' = [pc EXCEPT ![p] = "build"]
    /\ UNCHANGED <<engineFrame, calls_left, op, ret, is_initialized, inverted_index,
                   doc_metadata, doc_stats, cache, adv_cache, builds, scorings, ranked,
                   tokVars, hlVars>>

\* json.load raises on a malformed file; the exception leaves the call, and
\* lru_cache stores nothing.
LoadSearchIndexFails(p) ==
    /\ pc[p] = "load"
    /\ corpus_file.state = "malformed"
    /\ ret' = [ret EXCEPT ![p] = Raised("JSONDecodeError")]
    /\ pc' = [pc EXCEPT ![p] = "idle"]
    /\ UNCHANGED <<engineFrame, calls_left, op, indexVars, cache, adv_cache, builds,
                   scorings, ranked, tokVars, hlVars>>

\* The tuple assignment of the two parts built.
AssignBuilt(built) ==
    /\ inverted_index' = built.inverted_index
    /\ doc_metadata' = built.doc_metadata

\* self.inverted_index, self.doc_metadata = self._build_inverted_index()
BuildInvertedIndex(p) ==
    /\ pc[p] = "build"
    /\ AssignBuilt(_build_inverted_index(search_index))
    /\ builds' = builds + 1
    /\ pc' = [pc EXCEPT ![p] = "stats"]
    /\ UNCHANGED <<engineFrame, calls_left, op, ret, is_initialized, search_index,
                   doc_stats, cache, adv_cache, scorings, ranked, tokVars, hlVars>>

\* self.doc_stats = self._calculate_doc_stats()
CalculateDocStats(p) ==
    /\ pc[p] = "stats"
    /\ doc_stats' = _calculate_doc_stats(doc_metadata)
    /\ pc' = [pc EXCEPT ![p] = "flag"]
    /\ UNCHANGED <<engineFrame, calls_left, op, ret, is_initialized, search_index,
                   inverted_index, doc_metadata, cache, adv_cache, builds, scorings,
                   ranked, tokVars, hlVars>>

\* self.is_initialized = True
SetInitialized(p) ==
    /\ pc[p] = "flag"
    /\ is_initialized' = TRUE
    /\ pc' = [pc EXCEPT ![p] = "run"]
    /\ UNCHANGED <<engineFrame, calls_left, op, ret, search_index, inverted_index,
                   doc_metadata, doc_stats, cache, adv_cache, builds, scorings, ranked,
                   tokVars, hlVars>>

\* What the run of search_hadith r leaves in the observers: one more
\* scoring, and the documents ranked for the call.
Observe(call, r) ==
    /\ scorings' = IF r.scored THEN scorings + 1 ELSE scorings
    /\ ranked' = IF r.scored /\ r.ret.kind = "ok"
                 THEN [query |-> call.query, limit |-> call.limit, docs |-> r.docs]
                 ELSE ranked

\* search_hadith ends with r: a returned list is stored in the cache.
EndSearch(p, r) ==
    /\ ret' = [ret EXCEPT ![p] = r.ret]
    /\ cache' = IF r.ret.kind = "ok"
                THEN CacheStore(cache, Key(op[p]), r.ret.value) ELSE cache
    /\ Observe(op[p], r)

\* The rest of search_hadith.
RunSearch(p) ==
    /\ pc[p] = "run"
    /\ op[p].kind = "search"
    /\ EndSearch(p, SearchBody(op[p].query, op[p].limit))
    /\ pc' = [pc EXCEPT ![p] = "idle"]
    /\ UNCHANGED <<engineFrame, calls_left, op, indexVars, adv_cache, builds,
                   tokVars, hlVars>>

\* The inner search_hadith returned the list `plain`, now in its cache; the
\* highlighting changes that list in place into `results`.
EndAdvancedOk(p, plain, results) ==
    /\ ret' = [ret EXCEPT ![p] = Returned(results)]
    /\ cache' = CacheMutate(CacheStore(cache, Key(op[p]), plain), Key(op[p]), results)
    /\ adv_cache' = CacheStore(adv_cache, Key(op[p]), results)

\* search_hadith_advanced ends, its inner search_hadith having ended with r.
EndAdvanced(p, r) ==
    /\ IF r.ret.kind = "ok"
       THEN EndAdvancedOk(p, r.ret.value, HighlightAll(r.ret.value, op[p].query))
       ELSE /\ ret' = [ret EXCEPT ![p] = r.ret]
            /\ UNCHANGED <<cache, adv_cache>>
    /\ Observe(op[p], r)

\* The rest of search_hadith_advanced: the inner search_hadith, then the
\* highlighting of its list in place, which is the list search_hadith's
\* cache holds.
RunAdvanced(p) ==
    /\ pc[p] = "run"
    /\ op[p].kind = "advanced"
    /\ EndAdvanced(p, SearchBody(op[p].query, op[p].limit))
    /\ pc' = [pc EXCEPT ![p] = "idle"]
    /\ UNCHANGED <<engineFrame, calls_left, op, indexVars, builds, tokVars, hlVars>>

\* The rest of get_hadith_by_reference.
RunReference(p) ==
    /\ pc[p] = "run"
    /\ op[p].kind = "reference"
    /\ ret' = [ret EXCEPT ![p] =
                 ReferenceLookup(search_index, collections, op[p].collection_id,
                                 op[p].book_no, op[p].ref_no)]
    /\ pc' = [pc EXCEPT ![p] = "idle"]
    /\ UNCHANGED <<engineFrame, calls_left, op, indexVars, cache, adv_cache, builds,
                   scorings, ranked, tokVars, hlVars>>

Next ==
    \E p \in Callers :
        \/ CallSearch(p)
        \/ CallAdvanced(p)
        \/ CallReference(p)
        \/ EnsureInitialized(p)
        \/ InitializeIndex(p)
        \/ LoadSearchIndex(p)
        \/ LoadSearchIndexFails(p)
        \/ BuildInvertedIndex(p)
        \/ CalculateDocStats(p)
        \/ SetInitialized(p)
        \/ RunSearch(p)
        \/ RunAdvanced(p)
        \/ RunReference(p)

(***************************************************************************)
(* Corpora, calls and the initial states (the engine as __init__ with      *)
(* lazy_load=True leaves it).                                              *)
(***************************************************************************)
\* collections.json with the one collection c1.
Manifest == [id \in {"c1"} |-> [name |-> "N1"]]

\* What a hadith says: its searchableText and its englishText.
TextA == [searchable |-> <<"a">>, english |-> <<"A", ".">>]
TextB == [searchable |-> <<"b">>, english |-> <<"B">>]
TextAB == [searchable |-> <<"a", " ", "b">>, english |-> <<"A", " ", "b">>]
TextAA == [searchable |-> <<"a", " ", "a">>, english |-> <<"a", "a", " ", "a">>]
TextDigit == [searchable |-> <<"1">>, english |-> <<"1">>]
Texts == {TextA, TextB, TextAB, TextAA, TextDigit}

MkHadith(k, text) ==
    [hadithNumber |-> k, englishNarrated |-> "N", englishText |-> text.english,
     arabicText |-> "AR", bookReference |-> k, searchableText |-> text.searchable]

MkBook(id, name, texts) ==
    [id |-> id, bookName |-> name,
     hadiths |-> [k \in 1..Len(texts) |-> MkHadith(k, texts[k])]]

\* All hadiths in book "1" of collection c1.
OneBook(texts) ==
    [collections |-> <<[id |-> "c1", books |-> <<MkBook(<<"1">>, "B1", texts)>>]>>]

\* The first half in book "2", the rest in book "intro".
TwoBooks(texts) ==
    LET h == (Len(texts) + 1) \div 2
    IN  [collections |->
            <<[id |-> "c1",
               books |-> <<MkBook(<<"2">>, "B2", SubSeq(texts, 1, h)),
                           MkBook(<<"i", "n", "t", "r", "o">>, "Intro",
                                  SubSeq(texts, h + 1, Len(texts)))>>]>>]

RECURSIVE SeqsUpTo(_, _)
SeqsUpTo(S, n) ==
    IF n = 0 THEN {<<>>}
    ELSE LET shorter == SeqsUpTo(S, n - 1)
         IN  shorter \cup {Append(x, e) : x \in {y \in shorter : Len(y) = n - 1}, e \in S}

Documents(n) ==
    {OneBook(texts) : texts \in SeqsUpTo(Texts, n)}
      \cup {TwoBooks(texts) : texts \in {t \in SeqsUpTo(Texts, n) : Len(t) >= 2}}

MissingFile == [state |-> "missing", document |-> EmptyDocument]
MalformedFile == [state |-> "malformed", document |-> EmptyDocument]
FilesUpTo(n) ==
    {MissingFile, MalformedFile} \cup {[state |-> "ok", document |-> d] : d \in Documents(n)}

Queries ==
    { <<>>,
      <<"1">>,
      <<"a">>,
      <<"a", " ", "a">>,
      <<"a", " ", "b">>,
      <<"B", ",", "a">>,
      <<"a", " ", "b", " ", "b", " ", "b">> }
Limits == {0, 1, 2}

AllCalls ==
    {SearchCall(q, l) : q \in Queries, l \in Limits}
      \cup {AdvancedCall(q, l) : q \in Queries, l \in Limits}
      \cup {ReferenceCall(c, b, r) :
              c \in {"c1", "zz"},
              b \in {<<"1">>, <<"2">>, <<"i", "n", "t", "r", "o">>},
              r \in {<<"1">>, <<"2">>}}

\* An engine nothing has been built in, with the given corpus files to
\* draw from, calls on offer and calls per caller.
NotBuilt(files, calls, budget) ==
    /\ corpus_file \in files
    /\ menu = calls
    /\ calls_left = budget
    /\ pc = [p \in Callers |-> "idle"]
    /\ op = [p \in Callers |-> NoCall]
    /\ ret = [p \in Callers |-> NothingYet]
    /\ is_initialized = FALSE
    /\ search_index = EmptyDocument
    /\ inverted_index = <<>>
    /\ doc_metadata = <<>>
    /\ doc_stats = NoStats
    /\ cache = <<>>
    /\ adv_cache = <<>>
    /\ builds = 0
    /\ scorings = 0
    /\ ranked = [query |-> <<>>, limit |-> 0, docs |-> <<>>]

\* The object before __init__ has run, and after __init__(lazy_load=True):
\* state is "new", "constructed", or "raised" with the error; flag_assigned
\* says whether self.is_initialized has been assigned.
NewInstance(lazy_load) ==
    [lazy_load |-> lazy_load, state |-> "new", error |-> "none", flag_assigned |-> FALSE]
LazyInstance ==
    [lazy_load |-> TRUE, state |-> "constructed", error |-> "none", flag_assigned |-> TRUE]

\* The engine after __init__(lazy_load=True).
EngineInit(files, calls, budget) ==
    /\ instance = LazyInstance
    /\ collections = Manifest
    /\ NotBuilt(files, calls, budget)

EngineIdle == EngineInit({MissingFile}, {}, [p \in Callers |-> 0])

\* One caller, one call, every corpus of up to MaxDocs hadiths.
MaxDocs == 4
InitSearch ==
    /\ EngineInit(FilesUpTo(MaxDocs), AllCalls, [p \in Callers |-> IF p = 1 THEN 1 ELSE 0])
    /\ TokIdle
    /\ HlIdle
SpecSearch == InitSearch /\ [][Next]_vars

\* One caller, calls one after the other, corpora of up to MaxCachedDocs.
MaxCachedDocs == 2
MaxCachedCalls == 2
InitCache ==
    /\ EngineInit(FilesUpTo(MaxCachedDocs), AllCalls,
                  [p \in Callers |-> IF p = 1 THEN MaxCachedCalls ELSE 0])
    /\ TokIdle
    /\ HlIdle
SpecCache == InitCache /\ [][Next]_vars

\* Two callers at once, a few calls each, small corpora.
MaxCallsEach == 2
LifecycleFiles ==
    { MissingFile, MalformedFile,
      [state |-> "ok", document |-> OneBook(<<TextA>>)],
      [state |-> "ok", document |-> TwoBooks(<<TextDigit, TextAB>>)] }
LifecycleCalls ==
    { SearchCall(<<>>, 1), SearchCall(<<"a">>, 1), AdvancedCall(<<"a">>, 1),
      ReferenceCall("c1", <<"1">>, <<"1">>) }
Init ==
    /\ EngineInit(LifecycleFiles, LifecycleCalls, [p \in Callers |-> MaxCallsEach])
    /\ TokIdle
    /\ HlIdle
Spec == Init /\ [][Next]_vars

(***************************************************************************)
(* Construction: __init__ with either value of lazy_load, then the calls.  *)
(***************************************************************************)
\* The whole build, as _initialize_index runs it with no caller around.
EagerBuild(document) ==
    /\ search_index' = document
    /\ AssignBuilt(_build_inverted_index(document))
    /\ doc_stats' = _calculate_doc_stats(_build_inverted_index(document).doc_metadata)
    /\ is_initialized' = TRUE
    /\ builds' = builds + 1
    /\ instance' = [instance EXCEPT !.state = "constructed"]

\* self._initialize_index() as __init__ calls it: its first statement reads
\* self.is_initialized, which raises AttributeError on an object whose
\* attribute has not been assigned.
EagerInitializeIndex ==
    IF ~instance.flag_assigned
    THEN /\ instance' = [instance EXCEPT !.state = "raised", !.error = "AttributeError"]
         /\ UNCHANGED <<indexVars, builds>>
    ELSE IF ReturnsEarly(is_initialized)
    THEN /\ instance' = [instance EXCEPT !.state = "constructed"]
         /\ UNCHANGED <<indexVars, builds>>
    ELSE IF corpus_file.state = "malformed"
    THEN /\ instance' = [instance EXCEPT !.state = "raised", !.error = "JSONDecodeError"]
         /\ UNCHANGED <<indexVars, builds>>
    ELSE EagerBuild(IF corpus_file.state = "missing" THEN EmptyDocument
                    ELSE corpus_file.document)

\* __init__: the manifest is loaded; with lazy_load the index attributes
\* and the flag are assigned and nothing is built, without it
\* _initialize_index is called at once.
Construct ==
    /\ instance.state = "new"
    /\ collections' = Manifest
    /\ IF instance.lazy_load
       THEN /\ is_initialized' = FALSE
            /\ instance' = [instance EXCEPT !.state = "constructed",
                                            !.flag_assigned = TRUE]
            /\ UNCHANGED <<search_index, inverted_index, doc_metadata, doc_stats, builds>>
       ELSE EagerInitializeIndex
    /\ UNCHANGED <<corpus_file, menu, calls_left, pc, op, ret, cache, adv_cache,
                   scorings, ranked, tokVars, hlVars>>

NextConstruct == Construct \/ Next

InitConstruct ==
    /\ instance \in {NewInstance(lazy_load) : lazy_load \in BOOLEAN}
    /\ collections = <<>>
    /\ NotBuilt(LifecycleFiles, LifecycleCalls, [p \in Callers |-> MaxCallsEach])
    /\ TokIdle
    /\ HlIdle
SpecConstruct == InitConstruct /\ [][NextConstruct]_vars

(***************************************************************************)
(* Properties of the engine.                                               *)
(***************************************************************************)
\* A result list without the highlights search_hadith_advanced may have
\* added to its dicts.
Plain(results) ==
    [k \in 1..Len(results) |->
        [f \in DOMAIN results[k] \ {"highlights"} |-> results[k][f]]]

\* Two argument pairs the normalisation does not tell apart.
SameNormalized(key1, key2) ==
    /\ _normalize_query(key1[1]) = _normalize_query(key2[1])
    /\ key1[2] = key2[2]

\* C1 (cache equivalence): whenever search(q1, limit) and search(q2, limit)
\* have both returned, with normalize(q1) = normalize(q2), the two lists
\* returned (the lists the cache holds for them) are equal: same records,
\* same order, same scores.
C1_CacheEquivalence ==
    \A i, j \in 1..Len(cache) :
        SameNormalized(cache[i].key, cache[j].key)
            => Plain(cache[i].value) = Plain(cache[j].value)

\* C2 (no exception for user input): once the index is built, a search
\* with any query and any limit >= 0 ends with a list, never an exception.
C2_SearchNeverRaises ==
    \A p \in Callers :
        (is_initialized /\ op[p].kind = "search" /\ op[p].limit >= 0)
            => ret[p].kind # "exception"

\* A sort whose equal scores come out by ascending doc_id.
RECURSIVE SortByScoreThenDocId(_)
SortByScoreThenDocId(items) ==
    IF items = <<>> THEN <<>>
    ELSE LET ks == 1..Len(items)
             k == CHOOSE i \in ks : \A j \in ks :
                      \/ items[i].score > items[j].score
                      \/ /\ items[i].score = items[j].score
                         /\ items[i].doc_id <= items[j].doc_id
         IN  <<items[k]>> \o SortByScoreThenDocId(
                 SubSeq(items, 1, k - 1) \o SubSeq(items, k + 1, Len(items)))

\* Every candidate the words of the query score, with its score.
Candidates(query) ==
    ScoreWords(inverted_index, doc_stats, doc_metadata, _tokenize(lower(query)),
               [error |-> "none", doc_scores |-> <<>>]).doc_scores

\* C3 (ranking order): the documents a search ranked are the first `limit`
\* of its scored candidates by score descending, equal scores by ascending
\* doc-id.
C3_TiesByDocId ==
    (is_initialized /\ ranked.query # <<>>)
        => ranked.docs = Prefix(SortByScoreThenDocId(Candidates(ranked.query)),
                                ranked.limit)

\* C5 (initialization race): in no interleaving of the callers is the
\* index built more than once.
C5_BuiltAtMostOnce == builds <= 1

\* C6 (normalized cache key): a search(q2, limit) that is about to score
\* its words found no entry of a search(q1, limit) with normalize(q1) =
\* normalize(q2) in the cache; with one caller at a time, a call that has
\* such an entry is answered from it and does not re-enter scoring.
C6_NormalizedKeyHits ==
    \A p \in Callers :
        (pc[p] = "run" /\ op[p].kind = "search" /\ _tokenize(lower(op[p].query)) # <<>>)
            => \A k \in 1..Len(cache) : ~SameNormalized(cache[k].key, Key(op[p]))

\* The hadiths of the loaded corpus a reference call names.
Referred(call) ==
    {k \in 1..Len(HadithsOfCollections(search_index.collections)) :
        /\ HadithsOfCollections(search_index.collections)[k].collection_id
              = call.collection_id
        /\ HadithsOfCollections(search_index.collections)[k].book_id = call.book_no
        /\ IntToStr(HadithsOfCollections(search_index.collections)[k]
                        .hadith.bookReference) = call.ref_no}

\* The record has the fields of the hadith.
SameFields(record, hadith) ==
    /\ record.hadith_no = hadith.hadithNumber
    /\ record.narrator_en = hadith.englishNarrated
    /\ record.body_en = hadith.englishText
    /\ record.body_ar = hadith.arabicText
    /\ record.book_ref_no = hadith.bookReference

\* C7 (reference round trip): get_by_reference(collection, book,
\* bookReference) of a hadith stored in the loaded corpus returns a record
\* with that hadith's fields: not absent, no exception.
C7_ReferenceRoundTrip ==
    \A p \in Callers :
        (is_initialized /\ pc[p] = "idle" /\ op[p].kind = "reference")
            => \A k \in Referred(op[p]) :
                  /\ ret[p].kind = "ok"
                  /\ SameFields(ret[p].value,
                                HadithsOfCollections(search_index.collections)[k].hadith)

\* In state Created nothing but the [] of an empty query is cached.
OnlyEmptyQueriesCached(c) ==
    \A k \in 1..Len(c) : c[k].key[1] = <<>> /\ c[k].value = <<>>

\* A step of caller p out of a failed load: the error goes to p, the flag
\* stays unset, the caches are as they were.
FailureReported(p) ==
    (pc[p] = "load" /\ pc'[p] = "idle")
        => /\ ret'[p].kind = "exception"
           /\ ~is_initialized'
           /\ cache' = cache
           /\ adv_cache' = adv_cache

\* A call that finds the flag unset goes on to the build; one that finds
\* it set goes on to its work, and builds nothing.
GuardObserved(p) ==
    /\ (pc[p] = "ensure" /\ pc'[p] # "ensure")
          => pc'[p] = IF is_initialized THEN "run" ELSE "init"
    /\ (pc[p] = "init" /\ pc'[p] # "init")
          => pc'[p] = IF is_initialized THEN "run" ELSE "load"

\* A call that ends at once, without reaching the guard, is one with an
\* empty query or one answered from a cache.
EndsAtOnce(p) ==
    (pc[p] = "idle" /\ pc'[p] = "idle" /\ calls_left'[p] < calls_left[p])
        => /\ op'[p].kind # "reference"
           /\ \/ op'[p].query = <<>>
              \/ CacheHas(cache, Key(op'[p]))
              \/ CacheHas(adv_cache, Key(op'[p]))

NoTokens ==
    \A k \in 1..Len(HadithsOfCollections(search_index.collections)) :
        _tokenize(HadithsOfCollections(search_index.collections)[k]
                      .hadith.searchableText) = <<>>

\* C10 as the spec has it: after the build, avg-doc-length is >= 0, and is
\* zero if and only if the corpus is empty.
C10_ZeroIffEmpty ==
    is_initialized
        => /\ doc_stats.avg_doc_length.num >= 0
           /\ doc_stats.avg_doc_length.den > 0
           /\ doc_stats.avg_doc_length.num = 0 <=> doc_stats.total_docs = 0

\* C10 (corpus statistics invariant), amended: after the build,
\* avg-doc-length is >= 0, and is zero if and only if no document of the
\* corpus has a token, which is so for the empty corpus.
C10_ZeroIffNoTokens ==
    is_initialized
        => /\ doc_stats.avg_doc_length.num >= 0
           /\ doc_stats.avg_doc_length.den > 0
           /\ doc_stats.avg_doc_length.num = 0 <=> NoTokens
           /\ doc_stats.total_docs = 0 => doc_stats.avg_doc_length.num = 0

\* A corpus with documents, none of them with a letter, has been built.
C10_Witness ==
    /\ is_initialized
    /\ doc_stats.total_docs > 0
    /\ doc_stats.avg_doc_length.num = 0

\* The statistics of a corpus that must never be asked to score.
ZeroCorpus(stats) == stats.total_docs = 0 \/ stats.avg_doc_length.num = 0

\* The postings the scoring loop of a call would hand to _bm25_score.
ScoredPostings(call) ==
    {w \in Range(_tokenize(lower(call.query))) : w \in DOMAIN inverted_index}

\* C11 (scorer precondition): a search or search_advanced that is about to
\* score on a corpus with total-docs = 0 or avg-doc-length = 0 has no
\* posting to hand to the BM25 scorer, and no call ever ends with the
\* ZeroDivisionError of a division by avg-doc-length.
C11_ZeroCorpusNeverScored ==
    \A p \in Callers :
        /\ ret[p].error # "ZeroDivisionError"
        /\ (pc[p] = "run" /\ op[p].kind \in {"search", "advanced"}
                /\ ZeroCorpus(doc_stats))
              => ScoredPostings(op[p]) = {}

\* A search with words has run on a corpus of documents without a token,
\* and returned [].
C11_Witness ==
    /\ is_initialized
    /\ doc_stats.total_docs > 0
    /\ doc_stats.avg_doc_length.num = 0
    /\ scorings = 1
    /\ \E p \in Callers :
          /\ pc[p] = "idle"
          /\ op[p].kind = "search"
          /\ _tokenize(lower(op[p].query)) # <<>>
          /\ ret[p] = Returned(<<>>)

\* The sum of tf over a posting list.
RECURSIVE SumTf(_)
SumTf(postings) ==
    IF postings = <<>> THEN 0 ELSE Head(postings)[2] + SumTf(Tail(postings))

\* The sum of tf over the posting lists of the given terms.
RECURSIVE SumTfOfTerms(_, _)
SumTfOfTerms(index, terms) ==
    IF terms = {} THEN 0
    ELSE SumTf(index[CHOOSE w \in terms : TRUE])
           + SumTfOfTerms(index, terms \ {CHOOSE w \in terms : TRUE})

\* The sum of doc_length over the metadata table.
RECURSIVE SumOfLengths(_, _)
SumOfLengths(metadata, n) ==
    IF n = 0 THEN 0 ELSE metadata[n].doc_length + SumOfLengths(metadata, n - 1)

\* C12 (index conservation): after the builder has walked the corpus, every
\* posting has tf >= 1, no posting list holds a doc-id twice, and the tf of
\* all postings of all terms add up to the doc-length of all documents of
\* the metadata table.
C12_IndexConservation ==
    builds > 0
        => /\ \A w \in DOMAIN inverted_index :
                 /\ \A k \in 1..Len(inverted_index[w]) : inverted_index[w][k][2] >= 1
                 /\ \A i, j \in 1..Len(inverted_index[w]) :
                        i # j => inverted_index[w][i][1] # inverted_index[w][j][1]
           /\ SumTfOfTerms(inverted_index, DOMAIN inverted_index)
                 = SumOfLengths(doc_metadata, Len(doc_metadata))

\* A corpus has been walked in which a word comes twice in one document
\* and again in another, and a second word has postings too.
C12_Witness ==
    /\ builds > 0
    /\ Cardinality(DOMAIN inverted_index) >= 2
    /\ \E w \in DOMAIN inverted_index :
          /\ Len(inverted_index[w]) >= 2
          /\ \E k \in 1..Len(inverted_index[w]) : inverted_index[w][k][2] = 2

\* No record of the list has a highlights field.
NoHighlights(results) ==
    \A k \in 1..Len(results) : "highlights" \notin DOMAIN results[k]

\* C13 (basic results unaffected by advanced search): in any sequence of
\* search and search_advanced calls, the values the basic cache stores and
\* the records a search returns carry no highlights field, as they did
\* before any search_advanced call.
C13_BasicWithoutHighlights ==
    /\ \A k \in 1..Len(cache) : NoHighlights(cache[k].value)
    /\ \A p \in Callers :
          (pc[p] = "idle" /\ op[p].kind = "search" /\ ret[p].kind = "ok")
              => NoHighlights(ret[p].value)

\* C14 (eager construction): once the constructor has been run with
\* lazy_load = False, it has completed without error and the engine is
\* Ready, its index built during construction, once.
C14_EagerConstruction ==
    (~instance.lazy_load /\ instance.state # "new")
        => /\ instance.state = "constructed"
           /\ instance.error = "none"
           /\ is_initialized
           /\ builds = 1

(***************************************************************************)
(* The tokenizer on its own: a text is drawn, _tokenize is applied.        *)
(***************************************************************************)
MaxTextLen == 4
TokChars == {"a", "b", "A", "1", "_", ".", " ", "e_acute"}

RECURSIVE StringsUpTo(_, _)
StringsUpTo(chars, n) ==
    IF n = 0 THEN {<<>>}
    ELSE LET shorter == StringsUpTo(chars, n - 1)
         IN  shorter \cup {Append(s, c) : s \in {x \in shorter : Len(x) = n - 1}, c \in chars}


InitTok ==
    /\ tok_in \in StringsUpTo(TokChars, MaxTextLen)
    /\ tok_done = FALSE
    /\ tok_out = <<>>
    /\ HlIdle
    /\ EngineIdle

Tokenize ==
    /\ ~tok_done
    /\ tok_out' = _tokenize(tok_in)
    /\ tok_done' = TRUE
    /\ UNCHANGED <<tok_in, hlVars, engineVars>>

NextTok == Tokenize

SpecTok == InitTok /\ [][NextTok]_vars

(***************************************************************************)
(* C4.  Runs of ASCII letters in a lowercased text, by position.           *)
(***************************************************************************)
\* <<i, j>> is a maximal run of [a-z] in t.
IsMaximalRun(t, i, j) ==
    /\ i <= j
    /\ \A k \in i..j : t[k] \in AsciiLower
    /\ (i = 1 \/ t[i - 1] \notin AsciiLower)
    /\ (j = Len(t) \/ t[j + 1] \notin AsciiLower)

MaximalRuns(t) ==
    {r \in (1..Len(t)) \X (1..Len(t)) : IsMaximalRun(t, r[1], r[2])}

\* The maximal runs with no \w character (digit, underscore, letter of
\* another script) on either side.
DelimitedRuns(t) ==
    {r \in MaximalRuns(t) :
        /\ (r[1] = 1 \/ ~IsWordChar(t[r[1] - 1]))
        /\ (r[2] = Len(t) \/ ~IsWordChar(t[r[2] + 1]))}

\* out lists exactly the runs of the set, in occurrence order.
ListsRuns(out, t, runs) ==
    /\ Len(out) = Cardinality(runs)
    /\ \A r \in runs :
          out[Cardinality({q \in runs : q[1] < r[1]}) + 1] = SubSeq(t, r[1], r[2])

PureLetters(s) == \A k \in 1..Len(s) : s[k] \in AsciiLower \cup AsciiUpper

\* tokenize of a pure-letter string, written out.
OneToken(a) == IF a = <<>> THEN <<>> ELSE <<lower(a)>>

\* tok_in = a + c + b with a, b pure-letter strings and c at index k.
SplitsAt(k) ==
    /\ k \in 1..Len(tok_in)
    /\ PureLetters(SubSeq(tok_in, 1, k - 1))
    /\ PureLetters(SubSeq(tok_in, k + 1, Len(tok_in)))
    /\ ~PureLetters(<<tok_in[k]>>)

MaxBodyLen == 4
BodyChars == {"a", "b", "A", " ", "I_dot"}

\* Bodies with many separate words, for the caps on words and on spans.
LongBodies ==
    { <<"a", " ", "a", " ", "a", " ", "b", " ", "b", " ", "b", " ",
        "c", " ", "c", " ", "c", " ", "i", " ", "i", " ", "i">>,
      <<"a", "b", " ", "b", "a", " ", "a", "b", "a", " ", "I_dot", "a", " ", "b">> }

HlQueries ==
    { <<>>,
      <<"a">>,
      <<"A", "b">>,
      <<"b", " ", "a">>,
      <<"a", " ", "a", " ", "b">>,
      <<"a", "1", " ", "b">>,
      <<"a", " ", "b", " ", "c", " ", "i">>,
      <<"i", " ", "c", " ", "b", " ", "a", " ", "a", "b", " ", "b", "a">> }

InitHL ==
    /\ hl_text \in StringsUpTo(BodyChars, MaxBodyLen) \cup LongBodies
    /\ hl_query \in HlQueries
    /\ hl_done = FALSE
    /\ hl_out = <<>>
    /\ TokIdle
    /\ EngineIdle

Highlight ==
    /\ ~hl_done
    /\ hl_out' = Highlights(hl_text, hl_query)
    /\ hl_done' = TRUE
    /\ UNCHANGED <<hl_text, hl_query, tokVars, engineVars>>

NextHL == Highlight

SpecHL == InitHL /\ [][NextHL]_vars

\* C9: the highlight spans of a result of search_advanced are at most 10,
\* sorted by start, each starting strictly after the previous one ends
\* (so pairwise disjoint), with start < end, and each span's text is
\* body[start:end] of the English body.
C9_HighlightsDisjoint ==
    hl_done =>
        /\ Len(hl_out) <= 10
        /\ \A k \in 1..Len(hl_out) :
              /\ hl_out[k].start < hl_out[k].end
              /\ hl_out[k].text = Slice(hl_text, hl_out[k].start, hl_out[k].end)
              /\ k > 1 => hl_out[k].start > hl_out[k - 1].end

\* Reached: the pass merged spans away and still returned several.
C9_Witness ==
    /\ hl_done
    /\ Len(hl_out) >= 2
    /\ Len(FoundHighlights(hl_text, lower(hl_text), _tokenize(lower(hl_query)))) > Len(hl_out)

\* Reached: more than ten disjoint spans were found and ten were kept.
C9_Truncated ==
    /\ hl_done
    /\ Len(hl_out) = 10
    /\ Len(MergeHighlights(hl_text, <<>>,
             SortByStart(FoundHighlights(hl_text, lower(hl_text),
                                         Prefix(_tokenize(lower(hl_query)), 5))))) > 10

=============================================================================
